---- MODULE Spec2Model ----
(***************************************************************************)
(* Lock-free unbounded linked queue (CONQ::MPMCQueue) and the sharded      *)
(* multilist_vector_queue built on it.  Every atomic access of the source  *)
(* is one step of the thread that performs it; threads interleave freely.  *)
(***************************************************************************)
EXTENDS Integers, Sequences, FiniteSets, TLC

\* ------------------------------------------------------------ bounds
\* enqueue calls of producer 1 and of producer 2 under Spec
MaxEnqA == 1
MaxEnqB == 5
\* enqueue calls of the producer under SpecSP and SpecSeq
MaxEnq == 3
\* auto-routed enqueue calls of producer 1 and of producer 2 under SpecSAQ
MaxSaqEnq == 2
MaxSaqEnqB == 1
\* enqueue calls of the producer under SpecFair; dequeue calls of each
\* consumer under SpecFair and of the thread under SpecTwo
MaxFairEnq == 2
MaxCalls == 2
\* successful dequeues after which no further dequeue call is started
MaxDeq == 6
\* subqueues of the multilist_vector_queue (its constructor argument)
NumQueues == 2
\* subqueues of a second multilist_vector_queue of the same element type
NumQueuesB == 3
\* largest K of the run "K enqueues, K dequeues, K enqueues" under SpecRounds
MaxRounds == 4
\* indexed enqueue calls of producer 1 and of producer 2 under SpecHit
MaxHitEnq == 2
MaxHitEnqB == 1
\* auto-routed enqueue calls of the producer under SpecMC
MaxMcEnq == 2
\* auto-routed enqueue calls of the thread under SpecTwo
MaxTwoEnq == 4
\* enqueue calls of producer 1 and of producer 2 under SpecDtor
MaxDtorEnqA == 1
MaxDtorEnqB == 5
\* elements after which the drain loop of the destructor is cut off
MaxDrain == 12

\* ------------------------------------------------------------ universe
Null == 0
NoVal == 0
Unset == -1
Producers == {1, 2}
Consumers == {3, 4}
Threads == Producers \cup Consumers
\* the two multilist_vector_queue objects: instance i has Size(i) list
\* queues, the list queues Base(i) + 1 .. Base(i) + Size(i) of the model
Instances == {1, 2}
Size(i) == IF i = 1 THEN NumQueues ELSE NumQueuesB
Base(i) == IF i = 1 THEN 0 ELSE NumQueues
Queues == 1 .. NumQueues + NumQueuesB
MaxNodes == 2 * (NumQueues + NumQueuesB) + MaxEnqA + MaxEnqB + MaxEnq + MaxSaqEnq
Nodes == 1 .. MaxNodes
\* the k-th value producer p passes to an enqueue
Val(p, k) == 10 * p + k
ProducerOf(v) == v \div 10
\* the instantiations of sp_enqueue_forward / mp_enqueue_forward, each with
\* its own thread_local static indx
Slots == {"sp_copy", "sp_move", "mp_copy", "mp_move"}
\* the functions with their own thread_local static hitlist
HitFns == {"sc", "mc"}

VARIABLES
    next,       \* listNode::next of every node
    data,       \* listNode::data of every node
    head,       \* _head of every queue
    tail,       \* _tail of every queue
    freeHead,   \* _freeListHead of every queue
    freeTail,   \* _freeListTail of every queue
    allocated,  \* nodes handed out by new so far (nodes 1..allocated exist)
    pc,         \* where each thread stands
    op,         \* the list queue operation a thread is running or ran last
    q,          \* the queue (this) of the operation a thread is running
    node,       \* local: node / tail / item
    nxt,        \* local: next / prev_head / free_list_prev_head
    val,        \* the input of the running enqueue
    out,        \* the caller's output variable of a consumer
    ret,        \* result of the last finished dequeue of a consumer
    yielded,    \* whether the running mcDequeue took the yield branch
    snap,       \* enqueues that had returned when the dequeue started
    count,      \* enqueue calls started by each producer
    deqd,       \* <<consumer, value>> in the order the dequeues advanced tail
    enqIndx,    \* multilist_vector_queue::_enqueue_indx of every instance
    indx,       \* thread_local static indx of every thread and instantiation
    fetches,    \* fetch_add calls on _enqueue_indx made by every thread
    route,      \* subqueues the auto-routed enqueues of a thread went to
    hitlist,    \* thread_local static hitlist of every thread and function
    it,         \* position of the iterator it in the hitlist
    pass,       \* the loop of multilist_vector_queue::mc_dequeue being run
    saq,        \* the caller of the list queue dequeue a thread is running:
                \* multilist_vector_queue sc_dequeue / mc_dequeue, ~MPMCQueue
    calls,      \* dequeue calls started by each thread under SpecFair
    freed,      \* how many times delete was applied to every node
    rounds,     \* the K of the run under SpecRounds
    log,        \* list queue dequeues the running multilist_vector_queue
                \* dequeue has made: <<operation, subqueue, result>>
    inst,       \* the multilist_vector_queue (this) a thread last called
    sub,        \* the indx the last auto-routed enqueue of a thread used
    full        \* subqueues whose front element has been linked ever since
                \* the multilist_vector_queue dequeue of a thread started

shared == <<next, data, head, tail, freeHead, freeTail, allocated>>
saqv == <<enqIndx, indx, fetches, route, hitlist, it, pass, saq, calls>>
hist == <<freed, rounds, log, inst, sub>>
vars == <<next, data, head, tail, freeHead, freeTail, allocated, pc, op, q,
          node, nxt, val, out, ret, yielded, snap, count, deqd, enqIndx,
          indx, fetches, route, hitlist, it, pass, saq, calls, freed, rounds,
          log, inst, sub, full>>

\* ------------------------------------------------------------ construction
\* std::vector<size_t> hitlist(_q.size()); std::iota(begin, end, 0)
hitlist_sequence(i) == [k \in 1 .. Size(i) |-> k - 1]

\* Each queue is built with one sentinel in the main list and one in the
\* freelist: queue i owns nodes 2i-1 (main) and 2i (freelist).
InitQueues ==
    /\ next = [n \in Nodes |-> Null]
    /\ data = [n \in Nodes |-> NoVal]
    /\ head = [i \in Queues |-> 2 * i - 1]
    /\ tail = [i \in Queues |-> 2 * i - 1]
    /\ freeHead = [i \in Queues |-> 2 * i]
    /\ freeTail = [i \in Queues |-> 2 * i]
    /\ allocated = 2 * (NumQueues + NumQueuesB)
    /\ pc = [t \in Threads |-> "idle"]
    /\ op = [t \in Threads |-> "none"]
    /\ q = [t \in Threads |-> 1]
    /\ node = [t \in Threads |-> Null]
    /\ nxt = [t \in Threads |-> Null]
    /\ val = [t \in Threads |-> NoVal]
    /\ out = [t \in Threads |-> NoVal]
    /\ ret = [t \in Threads |-> "none"]
    /\ yielded = [t \in Threads |-> FALSE]
    /\ snap = [t \in Threads |-> [p \in Producers |-> 0]]
    /\ count = [p \in Producers |-> 0]
    /\ deqd = <<>>
    /\ enqIndx = [i \in Instances |-> 0]
    /\ indx = [t \in Threads |-> [s \in Slots |-> Unset]]
    /\ fetches = [t \in Threads |-> 0]
    /\ route = [t \in Threads |-> {}]
    /\ it = [t \in Threads |-> 1]
    /\ pass = [t \in Threads |-> 1]
    /\ saq = [t \in Threads |-> "none"]
    /\ calls = [t \in Threads |-> 0]
    /\ freed = [n \in Nodes |-> 0]
    /\ log = [t \in Threads |-> <<>>]
    /\ inst = [t \in Threads |-> 1]
    /\ sub = [t \in Threads |-> Unset]
    /\ full = [t \in Threads |-> {}]

\* Only the first multilist_vector_queue is used: the thread_local static
\* hitlist of a thread is hitlist_sequence() of that queue whenever it is
\* initialised, so it is taken as initialised from the start.
Init ==
    /\ InitQueues
    /\ rounds = 0
    /\ hitlist = [t \in Threads |-> [f \in HitFns |-> hitlist_sequence(1)]]

\* Both multilist_vector_queue objects are used: no thread_local static
\* hitlist is initialised yet (<<>>).
InitLazy ==
    /\ InitQueues
    /\ rounds = 0
    /\ hitlist = [t \in Threads |-> [f \in HitFns |-> <<>>]]

\* the run "K enqueues, K dequeues, K enqueues" for some K
InitRounds ==
    /\ InitQueues
    /\ rounds \in 1 .. MaxRounds
    /\ hitlist = [t \in Threads |-> [f \in HitFns |-> hitlist_sequence(1)]]

\* ------------------------------------------------------------ helpers
Running(t) == pc[t] \notin {"idle", "saq_ret"}
InEnqueue(t) == Running(t) /\ op[t] \in {"sp", "mp"}
InDequeue(t) == Running(t) /\ op[t] \in {"sc", "mc", "light"}
\* consumer c holds the tail it took with _tail.exchange(nullptr)
HoldsTail(c) ==
    /\ op[c] \in {"mc", "light"}
    /\ pc[c] \in {"dq_next", "dq_restore", "dq_data", "dq_tail"}
\* the node before the front element of queue i: the one _tail designates,
\* or the one the consumer that took the tail holds
Holders(i) == {c \in Threads : HoldsTail(c) /\ q[c] = i}
Front(i) ==
    IF tail[i] # Null THEN tail[i]
    ELSE IF Holders(i) # {} THEN node[CHOOSE c \in Holders(i) : TRUE]
    ELSE Null
\* queue i has a front element a dequeue would find (tail->next is not null)
Linked(i) == Front(i) # Null /\ next[Front(i)] # Null
\* full keeps the subqueues that are still linked after the step
FullUpdate == full' = [t \in Threads |-> {i \in full[t] : Linked(i)'}]
\* enqueue calls of p that have returned
Returned(p) == IF InEnqueue(p) THEN count[p] - 1 ELSE count[p]
Goto(t, l) == pc' = [pc EXCEPT ![t] = l]
\* an enqueue returns
Finish(t) ==
    /\ pc' = [pc EXCEPT ![t] = "idle"]
    /\ node' = [node EXCEPT ![t] = Null]
    /\ nxt' = [nxt EXCEPT ![t] = Null]
    /\ UNCHANGED op
\* a list queue dequeue returns r, to its caller or to the loop of the
\* multilist_vector_queue dequeue that called it
FinishDeq(t, r) ==
    /\ pc' = [pc EXCEPT ![t] = IF saq[t] = "none" THEN "idle" ELSE "saq_ret"]
    /\ node' = [node EXCEPT ![t] = Null]
    /\ nxt' = [nxt EXCEPT ![t] = Null]
    /\ ret' = [ret EXCEPT ![t] = r]
    /\ UNCHANGED op

\* ------------------------------------------------------------ enqueue
\* spEnqueue / mpEnqueue is entered (acquireOrAllocate runs first); budget
\* bounds the calls of p.  The caller keeps spEnqueue's precondition: no
\* other producer runs on the queue while an spEnqueue does.
EnqStart(p, kind, budget) ==
    /\ pc[p] = "idle"
    /\ count[p] < budget
    /\ \A o \in Producers \ {p} :
          (InEnqueue(o) /\ q[o] = q[p]) => (kind = "mp" /\ op[o] = "mp")
    /\ count' = [count EXCEPT ![p] = @ + 1]
    /\ val' = [val EXCEPT ![p] = Val(p, count[p] + 1)]
    /\ op' = [op EXCEPT ![p] = kind]
    /\ Goto(p, "fl_load")
    /\ UNCHANGED <<shared, q, node, nxt, out, ret, yielded, snap, deqd, saqv, hist>>
    /\ FullUpdate

\* freeListTryDequeue: node = _freeListTail.load()
FlLoad(t) ==
    /\ pc[t] = "fl_load"
    /\ node' = [node EXCEPT ![t] = freeTail[q[t]]]
    /\ Goto(t, "fl_next")
    /\ UNCHANGED <<shared, op, q, nxt, val, out, ret, yielded, snap, count, deqd, saqv, hist>>
    /\ FullUpdate

\* freeListTryDequeue: next = node->next.load(); on null it returns nullptr
\* and acquireOrAllocate builds a private node with new listNode{input}.
FlNext(t) ==
    /\ pc[t] = "fl_next"
    /\ IF next[node[t]] # Null
       THEN /\ nxt' = [nxt EXCEPT ![t] = next[node[t]]]
            /\ Goto(t, "fl_cas")
            /\ UNCHANGED <<node, data, next, allocated>>
       ELSE /\ allocated < MaxNodes
            /\ allocated' = allocated + 1
            /\ node' = [node EXCEPT ![t] = allocated + 1]
            /\ data' = [data EXCEPT ![allocated + 1] = val[t]]
            /\ next' = [next EXCEPT ![allocated + 1] = Null]
            /\ nxt' = [nxt EXCEPT ![t] = Null]
            /\ Goto(t, "publish")
    /\ UNCHANGED <<head, tail, freeHead, freeTail, op, q, val, out, ret,
                   yielded, snap, count, deqd, saqv, hist>>
    /\ FullUpdate

\* freeListTryDequeue: _freeListTail.compare_exchange_strong(node, next)
FlCas(t) ==
    /\ pc[t] = "fl_cas"
    /\ IF freeTail[q[t]] = node[t]
       THEN /\ freeTail' = [freeTail EXCEPT ![q[t]] = nxt[t]]
            /\ nxt' = [nxt EXCEPT ![t] = Null]
            /\ Goto(t, "acq_data")
            /\ UNCHANGED node
       ELSE /\ node' = [node EXCEPT ![t] = freeTail[q[t]]]
            /\ nxt' = [nxt EXCEPT ![t] = Null]
            /\ Goto(t, "fl_next")
            /\ UNCHANGED freeTail
    /\ UNCHANGED <<next, data, head, tail, freeHead, allocated, op, q, val,
                   out, ret, yielded, snap, count, deqd, saqv, hist>>
    /\ FullUpdate

\* acquireOrAllocate: node->data = input
AcqData(t) ==
    /\ pc[t] = "acq_data"
    /\ data' = [data EXCEPT ![node[t]] = val[t]]
    /\ Goto(t, "acq_next")
    /\ UNCHANGED <<next, head, tail, freeHead, freeTail, allocated, op, q,
                   node, nxt, val, out, ret, yielded, snap, count, deqd, saqv, hist>>
    /\ FullUpdate

\* acquireOrAllocate: node->next.store(nullptr)
AcqNext(t) ==
    /\ pc[t] = "acq_next"
    /\ next' = [next EXCEPT ![node[t]] = Null]
    /\ Goto(t, "publish")
    /\ UNCHANGED <<data, head, tail, freeHead, freeTail, allocated, op, q,
                   node, nxt, val, out, ret, yielded, snap, count, deqd, saqv, hist>>
    /\ FullUpdate

\* mpEnqueue: prev_head = _head.exchange(node)
MpSwap(t) ==
    /\ pc[t] = "publish" /\ op[t] = "mp"
    /\ nxt' = [nxt EXCEPT ![t] = head[q[t]]]
    /\ head' = [head EXCEPT ![q[t]] = node[t]]
    /\ Goto(t, "mp_link")
    /\ UNCHANGED <<next, data, tail, freeHead, freeTail, allocated, op, q,
                   node, val, out, ret, yielded, snap, count, deqd, saqv, hist>>
    /\ FullUpdate

\* mutant: mpEnqueue returns without storing prev_head->next
MpLink_NoStore(t) ==
    /\ pc[t] = "mp_link"
    /\ Finish(t)
    /\ UNCHANGED <<shared, q, val, out, ret, yielded, snap, count, deqd, saqv, hist>>
    /\ FullUpdate

\* mpEnqueue: prev_head->next.store(node); return
MpLink(t) ==
    /\ pc[t] = "mp_link"
    /\ next' = [next EXCEPT ![nxt[t]] = node[t]]
    /\ Finish(t)
    /\ UNCHANGED <<data, head, tail, freeHead, freeTail, allocated, q, val,
                   out, ret, yielded, snap, count, deqd, saqv, hist>>
    /\ FullUpdate

\* spEnqueue: _head.load()->next.store(node)
SpLink(t) ==
    /\ pc[t] = "publish" /\ op[t] = "sp"
    /\ next' = [next EXCEPT ![head[q[t]]] = node[t]]
    /\ Goto(t, "sp_head")
    /\ UNCHANGED <<data, head, tail, freeHead, freeTail, allocated, op, q,
                   node, nxt, val, out, ret, yielded, snap, count, deqd, saqv, hist>>
    /\ FullUpdate

\* mutant: spEnqueue returns without storing _head
SpHead_NoStore(t) ==
    /\ pc[t] = "sp_head"
    /\ Finish(t)
    /\ UNCHANGED <<shared, q, val, out, ret, yielded, snap, count, deqd, saqv, hist>>
    /\ FullUpdate

\* spEnqueue: _head.store(node); return
SpHead(t) ==
    /\ pc[t] = "sp_head"
    /\ head' = [head EXCEPT ![q[t]] = node[t]]
    /\ Finish(t)
    /\ UNCHANGED <<next, data, tail, freeHead, freeTail, allocated, q, val,
                   out, ret, yielded, snap, count, deqd, saqv, hist>>
    /\ FullUpdate

\* ------------------------------------------------------------ dequeue
\* scDequeue / mcDequeue / mcDequeueLight is entered.  The caller keeps
\* scDequeue's precondition: no other consumer runs on the queue while an
\* scDequeue does.
DeqEnter(c, kind) ==
    /\ pc[c] = "idle"
    /\ Len(deqd) < MaxDeq
    /\ \A o \in Threads \ {c} :
          (InDequeue(o) /\ q[o] = q[c]) => (kind # "sc" /\ op[o] # "sc")
    /\ op' = [op EXCEPT ![c] = kind]
    /\ snap' = [snap EXCEPT ![c] = [p \in Producers |-> Returned(p)]]
    /\ ret' = [ret EXCEPT ![c] = "none"]
    /\ yielded' = [yielded EXCEPT ![c] = FALSE]
    /\ Goto(c, IF kind = "sc" THEN "sc_load" ELSE "take")
    /\ UNCHANGED <<shared, q, node, nxt, val, out, count, deqd, enqIndx,
                   indx, fetches, route, hitlist, it, pass, saq, hist>>
    /\ FullUpdate

DeqStart(c, kind) == DeqEnter(c, kind) /\ UNCHANGED calls

\* a dequeue is entered by a thread that makes at most MaxCalls calls
DeqStartBounded(c, kind) ==
    /\ calls[c] < MaxCalls
    /\ DeqEnter(c, kind)
    /\ calls' = [calls EXCEPT ![c] = @ + 1]

\* scDequeue: tail = _tail.load()
ScLoad(t) ==
    /\ pc[t] = "sc_load"
    /\ tail[q[t]] # Null
    /\ node' = [node EXCEPT ![t] = tail[q[t]]]
    /\ Goto(t, "dq_next")
    /\ UNCHANGED <<shared, op, q, nxt, val, out, ret, yielded, snap, count, deqd, saqv, hist>>
    /\ FullUpdate

\* mutant: the tail is loaded, not exchanged with nullptr
TakeTail_NoNull(t) ==
    /\ pc[t] = "take"
    /\ tail[q[t]] # Null
    /\ node' = [node EXCEPT ![t] = tail[q[t]]]
    /\ Goto(t, "dq_next")
    /\ UNCHANGED <<shared, op, q, nxt, val, out, ret, yielded, snap, count,
                   deqd, saqv, hist>>
    /\ FullUpdate

\* mcDequeue / mcDequeueLight: tail = _tail.exchange(nullptr), taken
TakeTail(t) ==
    /\ pc[t] = "take"
    /\ tail[q[t]] # Null
    /\ node' = [node EXCEPT ![t] = tail[q[t]]]
    /\ tail' = [tail EXCEPT ![q[t]] = Null]
    /\ Goto(t, "dq_next")
    /\ UNCHANGED <<next, data, head, freeHead, freeTail, allocated, op, q,
                   nxt, val, out, ret, yielded, snap, count, deqd, saqv, hist>>
    /\ FullUpdate

\* mcDequeue: the exchange returned nullptr; yield and try again
TakeYield(t) ==
    /\ pc[t] = "take" /\ op[t] = "mc"
    /\ tail[q[t]] = Null
    /\ yielded' = [yielded EXCEPT ![t] = TRUE]
    /\ UNCHANGED <<shared, pc, op, q, node, nxt, val, out, ret, snap, count, deqd, saqv, hist>>
    /\ FullUpdate

\* mutant: mcDequeueLight yields and tries again like mcDequeue
TakeFail_Yields(t) ==
    /\ pc[t] = "take" /\ op[t] = "light"
    /\ tail[q[t]] = Null
    /\ yielded' = [yielded EXCEPT ![t] = TRUE]
    /\ UNCHANGED <<shared, pc, op, q, node, nxt, val, out, ret, snap, count, deqd, saqv, hist>>
    /\ FullUpdate

\* mcDequeueLight: the exchange returned nullptr; return false
TakeFail(t) ==
    /\ pc[t] = "take" /\ op[t] = "light"
    /\ tail[q[t]] = Null
    /\ FinishDeq(t, "false")
    /\ UNCHANGED <<shared, q, val, out, yielded, snap, count, deqd, saqv, hist>>
    /\ FullUpdate

\* next = tail->next.load(); scDequeue returns false on null
DqNext(t) ==
    /\ pc[t] = "dq_next"
    /\ IF next[node[t]] # Null
       THEN /\ nxt' = [nxt EXCEPT ![t] = next[node[t]]]
            /\ Goto(t, "dq_data")
            /\ UNCHANGED <<op, node, ret>>
       ELSE IF op[t] = "sc"
       THEN FinishDeq(t, "false")
       ELSE /\ Goto(t, "dq_restore")
            /\ UNCHANGED <<op, node, nxt, ret>>
    /\ UNCHANGED <<shared, q, val, out, yielded, snap, count, deqd, saqv, hist>>
    /\ FullUpdate

\* mutant: the empty branch returns false without putting the tail back
DqRestore_Forgets(t) ==
    /\ pc[t] = "dq_restore"
    /\ FinishDeq(t, "false")
    /\ UNCHANGED <<shared, q, val, out, yielded, snap, count, deqd, saqv, hist>>
    /\ FullUpdate

\* mcDequeue / mcDequeueLight: _tail.exchange(tail); return false
DqRestore(t) ==
    /\ pc[t] = "dq_restore"
    /\ tail' = [tail EXCEPT ![q[t]] = node[t]]
    /\ FinishDeq(t, "false")
    /\ UNCHANGED <<next, data, head, freeHead, freeTail, allocated, q, val,
                   out, yielded, snap, count, deqd, saqv, hist>>
    /\ FullUpdate

\* mutant: the payload is read from tail instead of next
DqData_ReadsTail(t) ==
    /\ pc[t] = "dq_data"
    /\ out' = [out EXCEPT ![t] = data[node[t]]]
    /\ Goto(t, "dq_tail")
    /\ UNCHANGED <<shared, op, q, node, nxt, val, ret, yielded, snap, count, deqd, saqv, hist>>
    /\ FullUpdate

\* output = std::move(next->data)
DqData(t) ==
    /\ pc[t] = "dq_data"
    /\ out' = [out EXCEPT ![t] = data[nxt[t]]]
    /\ Goto(t, "dq_tail")
    /\ UNCHANGED <<shared, op, q, node, nxt, val, ret, yielded, snap, count, deqd, saqv, hist>>
    /\ FullUpdate

\* _tail.store(next): the element leaves the queue
DqTail(t) ==
    /\ pc[t] = "dq_tail"
    /\ tail' = [tail EXCEPT ![q[t]] = nxt[t]]
    /\ deqd' = Append(deqd, <<t, out[t]>>)
    /\ nxt' = [nxt EXCEPT ![t] = Null]
    /\ Goto(t, "fe_clear")
    /\ UNCHANGED <<next, data, head, freeHead, freeTail, allocated, op, q,
                   node, val, out, ret, yielded, snap, count, saqv, hist>>
    /\ FullUpdate

\* freeListEnqueue: item->next.store(nullptr)
FeClear(t) ==
    /\ pc[t] = "fe_clear"
    /\ next' = [next EXCEPT ![node[t]] = Null]
    /\ Goto(t, "fe_swap")
    /\ UNCHANGED <<data, head, tail, freeHead, freeTail, allocated, op, q,
                   node, nxt, val, out, ret, yielded, snap, count, deqd, saqv, hist>>
    /\ FullUpdate

\* freeListEnqueue: free_list_prev_head = _freeListHead.exchange(item)
FeSwap(t) ==
    /\ pc[t] = "fe_swap"
    /\ nxt' = [nxt EXCEPT ![t] = freeHead[q[t]]]
    /\ freeHead' = [freeHead EXCEPT ![q[t]] = node[t]]
    /\ Goto(t, "fe_link")
    /\ UNCHANGED <<next, data, head, tail, freeTail, allocated, op, q, node,
                   val, out, ret, yielded, snap, count, deqd, saqv, hist>>
    /\ FullUpdate

\* mutant: freeListEnqueue returns without linking the item
FeLink_NoStore(t) ==
    /\ pc[t] = "fe_link"
    /\ FinishDeq(t, "true")
    /\ UNCHANGED <<shared, q, val, out, yielded, snap, count, deqd, saqv, hist>>
    /\ FullUpdate

\* freeListEnqueue: free_list_prev_head->next.store(item); return true
FeLink(t) ==
    /\ pc[t] = "fe_link"
    /\ next' = [next EXCEPT ![nxt[t]] = node[t]]
    /\ FinishDeq(t, "true")
    /\ UNCHANGED <<data, head, tail, freeHead, freeTail, allocated, q, val,
                   out, yielded, snap, count, deqd, saqv, hist>>
    /\ FullUpdate

\* ------------------------------------------------------------ multilist_vector_queue
\* for (it2 = begin; it2 != it; ++it2) std::iter_swap(it, it2), with it at
\* position k and it2 at position j
Swap(h, i, j) == [h EXCEPT ![i] = h[j], ![j] = h[i]]
RECURSIVE SwapLoop(_, _, _)
SwapLoop(h, k, j) == IF j = k THEN h ELSE SwapLoop(Swap(h, k, j), k, j + 1)
\* mutant: the hit is swapped with the front element only
HitUpdate_SwapFront(h, k) == Swap(h, 1, k)
HitUpdate(h, k) == SwapLoop(h, k, 1)

\* _q[idx] of instance i.  With idx < _q.size() it is a list queue of the
\* instance.  Otherwise the access is out of the bounds of the vector and
\* undefined: the call runs on whatever is found there, any list queue in
\* memory, or ends the thread (0).
Targets(i, idx) ==
    IF idx < Size(i) THEN {Base(i) + idx + 1} ELSE Queues \cup {0}

\* sp_enqueue_forward / mp_enqueue_forward without index on instance i: the
\* thread_local static indx of the instantiation is initialised by fetch_add
\* on first use, then _q[indx].mp_enqueue is entered.
SaqEnqueueOn(t, i, slot, budget) ==
    /\ pc[t] = "idle"
    /\ count[t] < budget
    /\ LET fresh == indx[t][slot] = Unset
           k == IF fresh THEN enqIndx[i] % Size(i) ELSE indx[t][slot]
       IN /\ indx' = [indx EXCEPT ![t][slot] = k]
          /\ enqIndx' = IF fresh THEN [enqIndx EXCEPT ![i] = @ + 1] ELSE enqIndx
          /\ fetches' = [fetches EXCEPT ![t] = IF fresh THEN @ + 1 ELSE @]
          /\ route' = [route EXCEPT ![t] = @ \cup {k}]
          /\ sub' = [sub EXCEPT ![t] = k]
          /\ \E j \in Targets(i, k) :
                /\ q' = [q EXCEPT ![t] = j]
                /\ Goto(t, IF j = 0 THEN "ub" ELSE "fl_load")
    /\ inst' = [inst EXCEPT ![t] = i]
    /\ count' = [count EXCEPT ![t] = @ + 1]
    /\ val' = [val EXCEPT ![t] = Val(t, count[t] + 1)]
    /\ op' = [op EXCEPT ![t] = "mp"]
    /\ UNCHANGED <<shared, node, nxt, out, ret, yielded, snap, deqd,
                   hitlist, it, pass, saq, calls, freed, rounds, log>>
    /\ FullUpdate

SaqEnqueue(t, slot, budget) == SaqEnqueueOn(t, 1, slot, budget)

\* sp_enqueue_forward / mp_enqueue_forward with index on instance i:
\* _q[index].mp_enqueue is entered.
SaqEnqueueAt(t, i, k, budget) ==
    /\ pc[t] = "idle"
    /\ count[t] < budget
    /\ \E j \in Targets(i, k) :
          /\ q' = [q EXCEPT ![t] = j]
          /\ Goto(t, IF j = 0 THEN "ub" ELSE "fl_load")
    /\ inst' = [inst EXCEPT ![t] = i]
    /\ count' = [count EXCEPT ![t] = @ + 1]
    /\ val' = [val EXCEPT ![t] = Val(t, count[t] + 1)]
    /\ op' = [op EXCEPT ![t] = "mp"]
    /\ UNCHANGED <<shared, node, nxt, out, ret, yielded, snap, deqd, saqv,
                   freed, rounds, log, sub>>
    /\ FullUpdate

\* the list queue dequeue the loop of fn calls in pass ps
SubOp(fn, ps) == IF fn = "sc" THEN "sc" ELSE IF ps = 1 THEN "light" ELSE "mc"
SubPc(fn) == IF fn = "sc" THEN "sc_load" ELSE "take"

\* _q[*it].sc_dequeue / mc_dequeue_light / mc_dequeue is entered with *it = idx
Probe(t, i, idx, o) ==
    \E j \in Targets(i, idx) :
        /\ q' = [q EXCEPT ![t] = j]
        /\ op' = [op EXCEPT ![t] = o]
        /\ Goto(t, IF j = 0 THEN "ub" ELSE IF o = "sc" THEN "sc_load" ELSE "take")

\* the list queue dequeue that has just returned to the loop
Attempt(t) == <<op[t], hitlist[t][saq[t]][it[t]], ret[t]>>

\* multilist_vector_queue::sc_dequeue / mc_dequeue of instance i is entered:
\* the thread_local static hitlist is initialised on the first call of the
\* thread, it = hitlist.begin()
SaqDeqEnter(t, i, fn) ==
    /\ pc[t] = "idle"
    /\ Len(deqd) < MaxDeq
    /\ \A o \in Threads \ {t} :
          saq[o] # "none" => (fn # "sc" /\ saq[o] # "sc")
    /\ LET h == IF hitlist[t][fn] = <<>> THEN hitlist_sequence(i)
                ELSE hitlist[t][fn]
       IN /\ hitlist' = [hitlist EXCEPT ![t][fn] = h]
          /\ Probe(t, i, h[1], SubOp(fn, 1))
    /\ saq' = [saq EXCEPT ![t] = fn]
    /\ inst' = [inst EXCEPT ![t] = i]
    /\ it' = [it EXCEPT ![t] = 1]
    /\ pass' = [pass EXCEPT ![t] = 1]
    /\ log' = [log EXCEPT ![t] = <<>>]
    /\ full' = [full EXCEPT ![t] =
                   {j \in Base(i) + 1 .. Base(i) + Size(i) : Linked(j)}]
    /\ snap' = [snap EXCEPT ![t] = [p \in Producers |-> Returned(p)]]
    /\ ret' = [ret EXCEPT ![t] = "none"]
    /\ yielded' = [yielded EXCEPT ![t] = FALSE]
    /\ UNCHANGED <<shared, node, nxt, val, out, count, deqd, enqIndx, indx,
                   fetches, route, freed, rounds, sub>>

SaqDeqStartOn(t, i, fn) == SaqDeqEnter(t, i, fn) /\ UNCHANGED calls

SaqDeqStart(t, fn) == SaqDeqStartOn(t, 1, fn)

\* sc_dequeue / mc_dequeue of instance i is entered by a thread that makes
\* at most MaxCalls calls
SaqDeqStartBounded(t, i, fn) ==
    /\ calls[t] < MaxCalls
    /\ SaqDeqEnter(t, i, fn)
    /\ calls' = [calls EXCEPT ![t] = @ + 1]

\* the subqueue dequeue returned true: move the hit forward, return true
SaqHit(t) ==
    /\ pc[t] = "saq_ret" /\ ret[t] = "true" /\ saq[t] \in HitFns
    /\ hitlist' = [hitlist EXCEPT ![t][saq[t]] = HitUpdate(@, it[t])]
    /\ log' = [log EXCEPT ![t] = Append(@, Attempt(t))]
    /\ saq' = [saq EXCEPT ![t] = "none"]
    /\ it' = [it EXCEPT ![t] = 1]
    /\ pass' = [pass EXCEPT ![t] = 1]
    /\ Goto(t, "idle")
    /\ UNCHANGED <<shared, op, q, node, nxt, val, out, ret, yielded, snap,
                   count, deqd, enqIndx, indx, fetches, route, calls, freed,
                   rounds, inst, sub>>
    /\ FullUpdate

\* the subqueue dequeue returned false: ++it, it != hitlist.end(), try the
\* next subqueue
SaqNext(t) ==
    /\ pc[t] = "saq_ret" /\ ret[t] = "false" /\ saq[t] \in HitFns
    /\ it[t] < Len(hitlist[t][saq[t]])
    /\ it' = [it EXCEPT ![t] = @ + 1]
    /\ log' = [log EXCEPT ![t] = Append(@, Attempt(t))]
    /\ Probe(t, inst[t], hitlist[t][saq[t]][it[t] + 1], SubOp(saq[t], pass[t]))
    /\ yielded' = [yielded EXCEPT ![t] = FALSE]
    /\ UNCHANGED <<shared, node, nxt, val, out, ret, snap, count, deqd,
                   enqIndx, indx, fetches, route, hitlist, pass, saq, calls,
                   freed, rounds, inst, sub>>
    /\ FullUpdate

\* mutant: mc_dequeue returns false after the loop over mc_dequeue_light
SaqSecondPass_Skips(t) ==
    /\ pc[t] = "saq_ret" /\ ret[t] = "false"
    /\ it[t] = Len(hitlist[t][saq[t]]) /\ saq[t] = "mc" /\ pass[t] = 1
    /\ log' = [log EXCEPT ![t] = Append(@, Attempt(t))]
    /\ saq' = [saq EXCEPT ![t] = "none"]
    /\ it' = [it EXCEPT ![t] = 1]
    /\ Goto(t, "idle")
    /\ UNCHANGED <<shared, op, q, node, nxt, val, out, ret, yielded, snap,
                   count, deqd, enqIndx, indx, fetches, route, hitlist, pass,
                   calls, freed, rounds, inst, sub>>
    /\ FullUpdate

\* mc_dequeue: the loop over mc_dequeue_light ended, the loop over
\* mc_dequeue starts at begin
SaqSecondPass(t) ==
    /\ pc[t] = "saq_ret" /\ ret[t] = "false"
    /\ it[t] = Len(hitlist[t][saq[t]]) /\ saq[t] = "mc" /\ pass[t] = 1
    /\ pass' = [pass EXCEPT ![t] = 2]
    /\ it' = [it EXCEPT ![t] = 1]
    /\ log' = [log EXCEPT ![t] = Append(@, Attempt(t))]
    /\ Probe(t, inst[t], hitlist[t]["mc"][1], "mc")
    /\ yielded' = [yielded EXCEPT ![t] = FALSE]
    /\ UNCHANGED <<shared, node, nxt, val, out, ret, snap, count, deqd,
                   enqIndx, indx, fetches, route, hitlist, saq, calls, freed,
                   rounds, inst, sub>>
    /\ FullUpdate

\* the last loop ended without a hit: return false
SaqEmpty(t) ==
    /\ pc[t] = "saq_ret" /\ ret[t] = "false" /\ saq[t] \in HitFns
    /\ it[t] = Len(hitlist[t][saq[t]]) /\ (saq[t] = "sc" \/ pass[t] = 2)
    /\ log' = [log EXCEPT ![t] = Append(@, Attempt(t))]
    /\ saq' = [saq EXCEPT ![t] = "none"]
    /\ it' = [it EXCEPT ![t] = 1]
    /\ pass' = [pass EXCEPT ![t] = 1]
    /\ Goto(t, "idle")
    /\ UNCHANGED <<shared, op, q, node, nxt, val, out, ret, yielded, snap,
                   count, deqd, enqIndx, indx, fetches, route, hitlist, calls,
                   freed, rounds, inst, sub>>
    /\ FullUpdate

\* ------------------------------------------------------------ destructor
\* the thread that destroys queue 1
Owner == 4
\* the destructor has not been entered
Alive == pc[Owner] = "idle"
\* the nodes the constructor of queue 1 and its enqueues allocated
QueueNodes == {1, 2} \cup (2 * (NumQueues + NumQueuesB) + 1 .. allocated)

\* ~MPMCQueue is entered with no operation in flight: T output; the first
\* scDequeue(output) of the while loop is called
DtorStart(d) ==
    /\ \A t \in Threads : pc[t] = "idle"
    /\ saq' = [saq EXCEPT ![d] = "dtor"]
    /\ op' = [op EXCEPT ![d] = "sc"]
    /\ q' = [q EXCEPT ![d] = 1]
    /\ ret' = [ret EXCEPT ![d] = "none"]
    /\ Goto(d, "sc_load")
    /\ UNCHANGED <<shared, node, nxt, val, out, yielded, snap, count, deqd,
                   enqIndx, indx, fetches, route, hitlist, it, pass, calls,
                   hist>>
    /\ FullUpdate

\* while(this->scDequeue(output)); the call returned true, call again
DtorDrain(d) ==
    /\ pc[d] = "saq_ret" /\ saq[d] = "dtor" /\ ret[d] = "true"
    /\ Len(deqd) < MaxDrain
    /\ Goto(d, "sc_load")
    /\ UNCHANGED <<shared, op, q, node, nxt, val, out, ret, yielded, snap,
                   count, deqd, saqv, hist>>
    /\ FullUpdate

\* the call returned false: front = _head.load(); delete front
DtorDeleteHead(d) ==
    /\ pc[d] = "saq_ret" /\ saq[d] = "dtor" /\ ret[d] = "false"
    /\ freed' = [freed EXCEPT ![head[q[d]]] = @ + 1]
    /\ Goto(d, "d_fl_load")
    /\ UNCHANGED <<shared, op, q, node, nxt, val, out, ret, yielded, snap,
                   count, deqd, saqv, rounds, log, inst, sub>>
    /\ FullUpdate

\* freeListTryDequeue called by the destructor: node = _freeListTail.load()
DtorFlLoad(d) ==
    /\ pc[d] = "d_fl_load"
    /\ node' = [node EXCEPT ![d] = freeTail[q[d]]]
    /\ Goto(d, "d_fl_next")
    /\ UNCHANGED <<shared, op, q, nxt, val, out, ret, yielded, snap, count,
                   deqd, saqv, hist>>
    /\ FullUpdate

\* next = node->next.load(); on null freeListTryDequeue returns nullptr and
\* the for loop of the destructor ends.  Reading a node that was deleted is
\* undefined.
DtorFlNext(d) ==
    /\ pc[d] = "d_fl_next"
    /\ IF freed[node[d]] > 0
       THEN Goto(d, "ub") /\ UNCHANGED nxt
       ELSE /\ nxt' = [nxt EXCEPT ![d] = next[node[d]]]
            /\ Goto(d, IF next[node[d]] = Null THEN "d_free_head" ELSE "d_fl_cas")
    /\ UNCHANGED <<shared, op, q, node, val, out, ret, yielded, snap, count,
                   deqd, saqv, hist>>
    /\ FullUpdate

\* _freeListTail.compare_exchange_strong(node, next); on success
\* freeListTryDequeue returns node, the destructor deletes it and calls
\* freeListTryDequeue again
DtorFlCas(d) ==
    /\ pc[d] = "d_fl_cas"
    /\ IF freeTail[q[d]] = node[d]
       THEN /\ freeTail' = [freeTail EXCEPT ![q[d]] = nxt[d]]
            /\ freed' = [freed EXCEPT ![node[d]] = @ + 1]
            /\ Goto(d, "d_fl_load")
            /\ UNCHANGED node
       ELSE /\ node' = [node EXCEPT ![d] = freeTail[q[d]]]
            /\ Goto(d, "d_fl_next")
            /\ UNCHANGED <<freeTail, freed>>
    /\ UNCHANGED <<next, data, head, tail, freeHead, allocated, op, q, nxt,
                   val, out, ret, yielded, snap, count, deqd, saqv, rounds,
                   log, inst, sub>>
    /\ FullUpdate

\* front = _freeListHead.load(); delete front; the destructor returns
DtorDeleteFreeHead(d) ==
    /\ pc[d] = "d_free_head"
    /\ freed' = [freed EXCEPT ![freeHead[q[d]]] = @ + 1]
    /\ Goto(d, "destroyed")
    /\ UNCHANGED <<shared, op, q, node, nxt, val, out, ret, yielded, snap,
                   count, deqd, saqv, rounds, log, inst, sub>>
    /\ FullUpdate

\* ------------------------------------------------------------ specifications
\* Spec: one queue, producers 1 and 2 with mpEnqueue, consumer 3 with any of
\* the three dequeues.
Next ==
    \/ EnqStart(1, "mp", MaxEnqA)
    \/ EnqStart(2, "mp", MaxEnqB)
    \/ \E p \in {1, 2} : FlLoad(p)
    \/ \E p \in {1, 2} : FlNext(p)
    \/ \E p \in {1, 2} : FlCas(p)
    \/ \E p \in {1, 2} : AcqData(p)
    \/ \E p \in {1, 2} : AcqNext(p)
    \/ \E p \in {1, 2} : MpSwap(p)
    \/ \E p \in {1, 2} : MpLink(p)
    \/ \E k \in {"sc", "mc", "light"} : DeqStart(3, k)
    \/ ScLoad(3)
    \/ TakeTail(3)
    \/ DqNext(3)
    \/ DqRestore(3)
    \/ DqData(3)
    \/ DqTail(3)
    \/ FeClear(3)
    \/ FeSwap(3)
    \/ FeLink(3)

Spec == Init /\ [][Next]_vars

\* SpecSP: one queue, the single producer 1 with spEnqueue or mpEnqueue,
\* consumers 3 and 4 with any of the three dequeues.
NextSP ==
    \/ \E k \in {"sp", "mp"} : EnqStart(1, k, MaxEnq)
    \/ FlLoad(1)
    \/ FlNext(1)
    \/ FlCas(1)
    \/ AcqData(1)
    \/ AcqNext(1)
    \/ MpSwap(1)
    \/ MpLink(1)
    \/ SpLink(1)
    \/ SpHead(1)
    \/ \E c \in {3, 4}, k \in {"sc", "mc", "light"} : DeqStart(c, k)
    \/ \E c \in {3, 4} : ScLoad(c)
    \/ \E c \in {3, 4} : TakeTail(c)
    \/ \E c \in {3, 4} : TakeYield(c)
    \/ \E c \in {3, 4} : TakeFail(c)
    \/ \E c \in {3, 4} : DqNext(c)
    \/ \E c \in {3, 4} : DqRestore(c)
    \/ \E c \in {3, 4} : DqData(c)
    \/ \E c \in {3, 4} : DqTail(c)
    \/ \E c \in {3, 4} : FeClear(c)
    \/ \E c \in {3, 4} : FeSwap(c)
    \/ \E c \in {3, 4} : FeLink(c)

SpecSP == Init /\ [][NextSP]_vars

\* SpecSeq: one queue, thread 1 alone calls spEnqueue and scDequeue.
NextSeq ==
    \/ EnqStart(1, "sp", MaxEnq)
    \/ FlLoad(1)
    \/ FlNext(1)
    \/ FlCas(1)
    \/ AcqData(1)
    \/ AcqNext(1)
    \/ SpLink(1)
    \/ SpHead(1)
    \/ DeqStart(1, "sc")
    \/ ScLoad(1)
    \/ DqNext(1)
    \/ DqData(1)
    \/ DqTail(1)
    \/ FeClear(1)
    \/ FeSwap(1)
    \/ FeLink(1)

SpecSeq == Init /\ [][NextSeq]_vars

\* SpecFair: one queue, producer 1 with mpEnqueue, consumers 3 and 4 with
\* mcDequeue or mcDequeueLight, each thread making finitely many calls and
\* every thread that can take a step eventually scheduled.
ProducerStep(p) ==
    \/ EnqStart(p, "mp", MaxFairEnq)
    \/ FlLoad(p)
    \/ FlNext(p)
    \/ FlCas(p)
    \/ AcqData(p)
    \/ AcqNext(p)
    \/ MpSwap(p)
    \/ MpLink(p)

ConsumerStep(c) ==
    \/ \E k \in {"mc", "light"} : DeqStartBounded(c, k)
    \/ TakeTail(c)
    \/ TakeYield(c)
    \/ TakeFail(c)
    \/ DqNext(c)
    \/ DqRestore(c)
    \/ DqData(c)
    \/ DqTail(c)
    \/ FeClear(c)
    \/ FeSwap(c)
    \/ FeLink(c)

NextFair == ProducerStep(1) \/ ConsumerStep(3) \/ ConsumerStep(4)

SpecFair ==
    /\ Init
    /\ [][NextFair]_vars
    /\ WF_vars(ProducerStep(1))
    /\ WF_vars(ConsumerStep(3))
    /\ WF_vars(ConsumerStep(4))

\* SpecSAQ: the multilist_vector_queue, producers 1 and 2 with the
\* auto-routed enqueues, consumer 3 with sc_dequeue or mc_dequeue.
NextSAQ ==
    \/ \E s \in Slots : SaqEnqueue(1, s, MaxSaqEnq)
    \/ \E s \in Slots : SaqEnqueue(2, s, MaxSaqEnqB)
    \/ \E p \in {1, 2} : FlLoad(p)
    \/ \E p \in {1, 2} : FlNext(p)
    \/ \E p \in {1, 2} : FlCas(p)
    \/ \E p \in {1, 2} : AcqData(p)
    \/ \E p \in {1, 2} : AcqNext(p)
    \/ \E p \in {1, 2} : MpSwap(p)
    \/ \E p \in {1, 2} : MpLink(p)
    \/ \E f \in HitFns : SaqDeqStart(3, f)
    \/ SaqHit(3)
    \/ SaqNext(3)
    \/ SaqSecondPass(3)
    \/ SaqEmpty(3)
    \/ ScLoad(3)
    \/ TakeTail(3)
    \/ DqNext(3)
    \/ DqRestore(3)
    \/ DqData(3)
    \/ DqTail(3)
    \/ FeClear(3)
    \/ FeSwap(3)
    \/ FeLink(3)

SpecSAQ == Init /\ [][NextSAQ]_vars

\* SpecDtor: one queue, producers 1 and 2 with mpEnqueue, consumer 3 with
\* any of the three dequeues; when no operation is in flight the owner may
\* destroy the queue, after which no operation is started.
LiveEnqStart(p, kind, budget) == Alive /\ EnqStart(p, kind, budget)
LiveDeqStart(c, kind) == Alive /\ DeqStart(c, kind)

NextDtor ==
    \/ LiveEnqStart(1, "mp", MaxDtorEnqA)
    \/ LiveEnqStart(2, "mp", MaxDtorEnqB)
    \/ \E p \in {1, 2} : FlLoad(p)
    \/ \E p \in {1, 2} : FlNext(p)
    \/ \E p \in {1, 2} : FlCas(p)
    \/ \E p \in {1, 2} : AcqData(p)
    \/ \E p \in {1, 2} : AcqNext(p)
    \/ \E p \in {1, 2} : MpSwap(p)
    \/ \E p \in {1, 2} : MpLink(p)
    \/ \E k \in {"sc", "mc", "light"} : LiveDeqStart(3, k)
    \/ \E c \in {3, Owner} : ScLoad(c)
    \/ TakeTail(3)
    \/ \E c \in {3, Owner} : DqNext(c)
    \/ DqRestore(3)
    \/ \E c \in {3, Owner} : DqData(c)
    \/ \E c \in {3, Owner} : DqTail(c)
    \/ \E c \in {3, Owner} : FeClear(c)
    \/ \E c \in {3, Owner} : FeSwap(c)
    \/ \E c \in {3, Owner} : FeLink(c)
    \/ DtorStart(Owner)
    \/ DtorDrain(Owner)
    \/ DtorDeleteHead(Owner)
    \/ DtorFlLoad(Owner)
    \/ DtorFlNext(Owner)
    \/ DtorFlCas(Owner)
    \/ DtorDeleteFreeHead(Owner)

SpecDtor == Init /\ [][NextDtor]_vars

\* SpecRounds: one queue, thread 1 alone makes K enqueue calls, then K
\* dequeue calls, then K enqueue calls, for the K chosen at the start.
\* the first K enqueue calls come before, the last K after the dequeues
RoundsEnqStart(kind) ==
    EnqStart(1, kind, IF Len(deqd) = 0 THEN rounds
                      ELSE IF Len(deqd) = rounds THEN 2 * rounds ELSE 0)
\* the K dequeue calls come after the first K enqueue calls
RoundsDeqStart(kind) ==
    count[1] = rounds /\ Len(deqd) < rounds /\ DeqStart(1, kind)

NextRounds ==
    \/ \E k \in {"sp", "mp"} : RoundsEnqStart(k)
    \/ FlLoad(1)
    \/ FlNext(1)
    \/ FlCas(1)
    \/ AcqData(1)
    \/ AcqNext(1)
    \/ MpSwap(1)
    \/ MpLink(1)
    \/ SpLink(1)
    \/ SpHead(1)
    \/ \E k \in {"sc", "mc", "light"} : RoundsDeqStart(k)
    \/ ScLoad(1)
    \/ TakeTail(1)
    \/ DqNext(1)
    \/ DqData(1)
    \/ DqTail(1)
    \/ FeClear(1)
    \/ FeSwap(1)
    \/ FeLink(1)

SpecRounds == InitRounds /\ [][NextRounds]_vars

\* SpecHit: the second multilist_vector_queue, producer 1 pinned to its last
\* subqueue and producer 2 to subqueue PinB with the indexed mp_enqueue,
\* consumer 3 with sc_dequeue or mc_dequeue.
PinA == NumQueuesB - 1
PinB == 1
NextHit ==
    \/ SaqEnqueueAt(1, 2, PinA, MaxHitEnq)
    \/ SaqEnqueueAt(2, 2, PinB, MaxHitEnqB)
    \/ \E p \in {1, 2} : FlLoad(p)
    \/ \E p \in {1, 2} : FlNext(p)
    \/ \E p \in {1, 2} : FlCas(p)
    \/ \E p \in {1, 2} : AcqData(p)
    \/ \E p \in {1, 2} : AcqNext(p)
    \/ \E p \in {1, 2} : MpSwap(p)
    \/ \E p \in {1, 2} : MpLink(p)
    \/ \E f \in HitFns : SaqDeqStartOn(3, 2, f)
    \/ SaqHit(3)
    \/ SaqNext(3)
    \/ SaqSecondPass(3)
    \/ SaqEmpty(3)
    \/ ScLoad(3)
    \/ TakeTail(3)
    \/ DqNext(3)
    \/ DqRestore(3)
    \/ DqData(3)
    \/ DqTail(3)
    \/ FeClear(3)
    \/ FeSwap(3)
    \/ FeLink(3)

SpecHit == InitLazy /\ [][NextHit]_vars

\* SpecMC: the first multilist_vector_queue, producer 1 with the auto-routed
\* mp_enqueue(const T&) and mp_enqueue(T&&), consumers 3 and 4 with
\* mc_dequeue.
NextMC ==
    \/ \E s \in {"mp_copy", "mp_move"} : SaqEnqueue(1, s, MaxMcEnq)
    \/ FlLoad(1)
    \/ FlNext(1)
    \/ FlCas(1)
    \/ AcqData(1)
    \/ AcqNext(1)
    \/ MpSwap(1)
    \/ MpLink(1)
    \/ \E c \in {3, 4} : SaqDeqStart(c, "mc")
    \/ \E c \in {3, 4} : SaqHit(c)
    \/ \E c \in {3, 4} : SaqNext(c)
    \/ \E c \in {3, 4} : SaqSecondPass(c)
    \/ \E c \in {3, 4} : SaqEmpty(c)
    \/ \E c \in {3, 4} : TakeTail(c)
    \/ \E c \in {3, 4} : TakeYield(c)
    \/ \E c \in {3, 4} : TakeFail(c)
    \/ \E c \in {3, 4} : DqNext(c)
    \/ \E c \in {3, 4} : DqRestore(c)
    \/ \E c \in {3, 4} : DqData(c)
    \/ \E c \in {3, 4} : DqTail(c)
    \/ \E c \in {3, 4} : FeClear(c)
    \/ \E c \in {3, 4} : FeSwap(c)
    \/ \E c \in {3, 4} : FeLink(c)

SpecMC == Init /\ [][NextMC]_vars

\* SpecTwo: two multilist_vector_queue objects of the same element type, with
\* NumQueues and NumQueuesB subqueues; thread 1 alone calls the auto-routed
\* enqueues and sc_dequeue or mc_dequeue (at most MaxCalls times), each on
\* either object.
NextTwo ==
    \/ \E i \in Instances, s \in Slots : SaqEnqueueOn(1, i, s, MaxTwoEnq)
    \/ FlLoad(1)
    \/ FlNext(1)
    \/ FlCas(1)
    \/ AcqData(1)
    \/ AcqNext(1)
    \/ MpSwap(1)
    \/ MpLink(1)
    \/ \E i \in Instances, f \in HitFns : SaqDeqStartBounded(1, i, f)
    \/ SaqHit(1)
    \/ SaqNext(1)
    \/ SaqSecondPass(1)
    \/ SaqEmpty(1)
    \/ ScLoad(1)
    \/ TakeTail(1)
    \/ DqNext(1)
    \/ DqRestore(1)
    \/ DqData(1)
    \/ DqTail(1)
    \/ FeClear(1)
    \/ FeSwap(1)
    \/ FeLink(1)

SpecTwo == InitLazy /\ [][NextTwo]_vars

\* ------------------------------------------------------------ history
DeqVals == {deqd[i][2] : i \in 1 .. Len(deqd)}
EnqVals == UNION {{Val(p, k) : k \in 1 .. count[p]} : p \in Producers}
AllIdle == \A t \in Threads : pc[t] = "idle"
\* the last dequeue of c was a scDequeue or mcDequeue that returned false
ReturnedFalse(c) ==
    pc[c] = "idle" /\ ret[c] = "false" /\ op[c] \in {"sc", "mc"}

\* ------------------------------------------------------------ claims
\* C1: every value a successful dequeue returns was passed to an enqueue,
\* and no enqueued value is returned by more than one successful dequeue.
C1_DequeuedOnceAndEnqueued ==
    /\ \A i \in 1 .. Len(deqd) : deqd[i][2] \in EnqVals
    /\ \A i, j \in 1 .. Len(deqd) : i # j => deqd[i][2] # deqd[j][2]

\* C2: when a dequeue that started after every enqueue call had returned
\* comes back false with no operation in flight, the values the successful
\* dequeues returned are, as a multiset, the values passed to the enqueues.
C2_NothingLostAtQuiescence ==
    \A c \in Consumers :
        (AllIdle /\ ReturnedFalse(c) /\ snap[c] = count)
            => (DeqVals = EnqVals /\ Len(deqd) = Cardinality(EnqVals))

\* C3: with the single producer 1, the values the dequeues remove, in the
\* order they advance tail, are a prefix of the enqueue sequence.
C3_SingleProducerFifo ==
    \A i \in 1 .. Len(deqd) : deqd[i][2] = Val(1, i)

\* both consumers have removed values while an spEnqueue is running
C3_Witness ==
    /\ Len(deqd) = 3
    /\ deqd[1][1] # deqd[2][1]
    /\ pc[1] # "idle" /\ op[1] = "sp"

\* C4: a consumer of the multilist_vector_queue that receives two values one
\* producer passed to the auto-routed enqueues receives the earlier first.
C4_SaqPerProducerFifo ==
    \A i, j \in 1 .. Len(deqd) :
        (/\ deqd[i][1] = deqd[j][1]
         /\ ProducerOf(deqd[i][2]) = ProducerOf(deqd[j][2])
         /\ deqd[i][2] < deqd[j][2])
            => i < j

\* C5: a producer thread calls fetch_add on _enqueue_indx once, on its first
\* auto-routed enqueue, and all its auto-routed enqueues go to one subqueue.
C5_StickyRouting ==
    \A t \in Producers :
        /\ fetches[t] = (IF count[t] > 0 THEN 1 ELSE 0)
        /\ Cardinality(route[t]) <= 1

\* C6: under mpEnqueue by several producers, a consumer never receives a
\* value of a producer after a value the same producer enqueued later.
C6_PerProducerOrder ==
    \A i, j \in 1 .. Len(deqd) :
        (/\ i < j
         /\ deqd[i][1] = deqd[j][1]
         /\ ProducerOf(deqd[i][2]) = ProducerOf(deqd[j][2]))
            => deqd[i][2] <= deqd[j][2]

\* C7: when scDequeue or mcDequeue returns false, every value whose enqueue
\* had returned before the dequeue started has been dequeued.
C7_FalseMeansEmpty ==
    \A c \in Consumers :
        ReturnedFalse(c) =>
            \A p \in Producers :
                \A k \in 1 .. snap[c][p] : Val(p, k) \in DeqVals

\* the amended C7: while only one producer thread has enqueued, a false from
\* scDequeue or mcDequeue means every value whose enqueue had returned
\* before the dequeue started has been dequeued.
C7_FalseMeansEmptyOneProducer ==
    \A c \in Consumers :
        (ReturnedFalse(c) /\ Cardinality({p \in Producers : count[p] > 0}) <= 1)
            => \A p \in Producers :
                   \A k \in 1 .. snap[c][p] : Val(p, k) \in DeqVals

\* a dequeue came back false after two enqueues of the only producer so far
\* had returned and their values had been dequeued
C7_Witness ==
    /\ ReturnedFalse(3)
    /\ count[1] = 0 /\ count[2] = 2
    /\ snap[3][2] = 2
    /\ Len(deqd) = 2

\* C8: run by one thread, spEnqueue and scDequeue behave like a FIFO
\* sequence: the dequeued values are a prefix of the enqueued ones, a false
\* means every enqueued value had been dequeued, and a true returns the
\* oldest value not dequeued before.
C8_SequentialFifo ==
    /\ \A i \in 1 .. Len(deqd) : deqd[i] = <<1, Val(1, i)>>
    /\ (pc[1] = "idle" /\ op[1] = "sc" /\ ret[1] = "false")
          => Len(deqd) = snap[1][1]
    /\ (pc[1] = "idle" /\ op[1] = "sc" /\ ret[1] = "true")
          => (Len(deqd) <= snap[1][1] /\ out[1] = Val(1, Len(deqd)))

\* 1, 2, 3 were enqueued, three dequeues returned them and a fourth false
C8_Witness ==
    /\ pc[1] = "idle" /\ op[1] = "sc" /\ ret[1] = "false"
    /\ deqd = <<<<1, Val(1, 1)>>, <<1, Val(1, 2)>>, <<1, Val(1, 3)>>>>

\* C9: under fair scheduling and finitely many calls every mcDequeue call
\* returns; it takes the yield branch only while another consumer holds the
\* tail, and a holder always puts a tail back (tail is null only while held).
C9_McDequeueReturns ==
    /\ \A c \in {3, 4} :
          (pc[c] # "idle" /\ op[c] = "mc") ~> (pc[c] = "idle")
    /\ [][\A c \in {3, 4} :
            (op[c] = "mc" /\ ~yielded[c] /\ yielded'[c])
                => \E o \in {3, 4} \ {c} : HoldsTail(o)]_vars
    /\ [](tail[1] = Null => \E o \in {3, 4} : HoldsTail(o))
    /\ [](\A c \in {3, 4} :
            (pc[c] = "idle" /\ op[c] = "mc" /\ ret[c] = "false")
                => (tail[1] # Null \/ \E o \in {3, 4} \ {c} : HoldsTail(o)))

\* an mcDequeue that found the queue empty without yielding has returned
\* false, and another one has returned after yielding
C9_Witness ==
    /\ pc[3] = "idle" /\ op[3] = "mc" /\ ret[3] = "false" /\ ~yielded[3]
    /\ pc[4] = "idle" /\ op[4] = "mc" /\ yielded[4]

\* what thread c alone writes
Local(c) == <<pc[c], op[c], node[c], nxt[c], out[c], ret[c], yielded[c]>>

\* C10: an mcDequeueLight that finds the tail taken returns false in that
\* step and changes neither the queue nor out; it never yields and can
\* always take its step; a true carries a dequeued value; the tail is null
\* only while a consumer holds it.
C10_LightFailsAtOnce ==
    /\ [][\A c \in {3, 4} :
            (/\ pc[c] = "take" /\ op[c] = "light"
             /\ tail[q[c]] = Null
             /\ Local(c)' # Local(c))
                => (/\ pc'[c] = "idle" /\ ret'[c] = "false"
                    /\ UNCHANGED <<shared, out>>)]_vars
    /\ [](\A c \in {3, 4} : op[c] = "light" => ~yielded[c])
    /\ [](\A c \in {3, 4} :
            (pc[c] = "take" /\ op[c] = "light")
                => ENABLED (TakeTail(c) \/ TakeFail(c)))
    /\ [](\A c \in {3, 4} :
            (pc[c] = "idle" /\ op[c] = "light" /\ ret[c] = "true")
                => \E i \in 1 .. Len(deqd) : deqd[i] = <<c, out[c]>>)
    /\ [](tail[1] = Null => \E o \in {3, 4} : HoldsTail(o))

\* on the empty queue an mcDequeueLight has returned false because the
\* other consumer holds the tail
C10_Witness ==
    /\ pc[3] = "idle" /\ op[3] = "light" /\ ret[3] = "false"
    /\ tail[1] = Null /\ HoldsTail(4)
    /\ count[1] = 0

\* C11: the destructor, run with no operation in flight, applies delete to
\* every node the constructor or an enqueue allocated exactly once: no node
\* is deleted twice, no deleted node is read, and when the destructor has
\* returned every allocated node has been deleted.
C11_EveryNodeFreedOnce ==
    /\ \A n \in Nodes : freed[n] <= 1
    /\ pc[Owner] # "ub"
    /\ pc[Owner] = "destroyed" => \A n \in QueueNodes : freed[n] = 1

\* new listNode executed for queue 1, by its constructor and its enqueues
Allocations == allocated - 2 * (NumQueues + NumQueuesB) + 2

\* C12: in the run of K enqueues, K dequeues and K enqueues the heap
\* allocations never exceed K plus the two sentinels of the constructor, and
\* no step of the second round of enqueues allocates.
C12_ReuseBoundsAllocation ==
    /\ [](Allocations <= rounds + 2)
    /\ [][count[1] > rounds => allocated' = allocated]_vars

\* the run with K = 3 is over: six enqueues returned, five nodes allocated
C12_Witness ==
    /\ rounds = 3 /\ count[1] = 6 /\ pc[1] = "idle"
    /\ Len(deqd) = 3
    /\ Allocations = 5

\* the nodes met following next from n
RECURSIVE ReachFrom(_, _)
ReachFrom(n, seen) ==
    IF n = Null \/ n \in seen THEN seen
    ELSE ReachFrom(next[n], seen \cup {n})
\* the nodes reachable from _tail and from _freeListTail of queue i
MainList(i) == ReachFrom(Front(i), {})
FreeList(i) == ReachFrom(freeTail[i], {})
\* producer p holds the node acquireOrAllocate gave it, not yet published
HasNode(p) == pc[p] \in {"acq_data", "acq_next", "publish"}

\* C13: no node is reachable both from tail and from freeTail; the node a
\* producer got from the freelist pop is reachable from neither list and is
\* held by no other producer.
C13_NodeInOneList ==
    /\ MainList(1) \cap FreeList(1) = {}
    /\ \A p \in Producers :
          HasNode(p) => node[p] \notin MainList(1) \cup FreeList(1)
    /\ \A p1, p2 \in Producers :
          (p1 # p2 /\ HasNode(p1) /\ HasNode(p2)) => node[p1] # node[p2]

\* C14: at most one consumer at a time is between taking the tail and
\* writing it back; the tail word is null exactly then; the holder took the
\* node the tail designated and writes back that node when it found no
\* successor and the successor when it removed an element.
C14_TailExclusive ==
    /\ [](Cardinality(Holders(1)) <= 1)
    /\ [](tail[1] = Null <=> Holders(1) # {})
    /\ [][\A c \in Consumers :
            (~HoldsTail(c) /\ HoldsTail(c)')
                => (tail[1] # Null /\ node'[c] = tail[1] /\ tail'[1] = Null)]_vars
    /\ [][\A c \in Consumers :
            (HoldsTail(c) /\ ~HoldsTail(c)')
                => /\ tail'[1] # Null
                   /\ pc[c] = "dq_restore" => tail'[1] = node[c]
                   /\ pc[c] = "dq_tail" => tail'[1] = next[node[c]]
                   /\ pc[c] \in {"dq_restore", "dq_tail"}]_vars

\* consumer 3 holds the tail of a queue with an element while consumer 4
\* has found the tail taken and yielded
C14_Witness ==
    /\ HoldsTail(3) /\ pc[3] = "dq_data"
    /\ pc[4] = "take" /\ op[4] = "mc" /\ yielded[4]
    /\ tail[1] = Null

\* C15: neither _head nor _tail of a queue is ever null.
C15_HeadTailNonNull ==
    \A i \in Queues : head[i] # Null /\ tail[i] # Null

\* the amended C15: _head is never null, and _tail is null only while a
\* consumer that took it in mcDequeue or mcDequeueLight has not yet written
\* it back.
C15_HeadNonNullTailHeld ==
    \A i \in Queues :
        /\ head[i] # Null
        /\ tail[i] = Null =>
              \E c \in Consumers :
                  /\ q[c] = i /\ HoldsTail(c)
                  /\ node[c] # Null

\* the tail is null: consumer 4 took it in mcDequeue and has found no
\* successor, while the producer is between its head swap and its next store
C15_Witness ==
    /\ tail[1] = Null
    /\ op[4] = "mc" /\ pc[4] = "dq_restore"
    /\ pc[1] = "mp_link"

\* the node at which following next from n ends, Null when the walk meets
\* a node a second time
RECURSIVE WalkEnd(_, _)
WalkEnd(n, seen) ==
    IF n = Null \/ n \in seen THEN Null
    ELSE IF next[n] = Null THEN n
    ELSE WalkEnd(next[n], seen \cup {n})
MainEnd(i) == WalkEnd(Front(i), {})
\* an spEnqueue on queue i has linked its node behind _head and not yet
\* stored _head: the walk ends at that node (a dequeue may already have
\* removed it, so that _tail designates it while _head is still behind)
SpLinked(i) ==
    \E p \in Producers :
        /\ q[p] = i /\ op[p] = "sp" /\ pc[p] = "sp_head"
        /\ MainEnd(i) = node[p]
\* the walk ends at a node an mpEnqueue on queue i swapped out of _head and
\* has not yet linked to its successor
MpPending(i) ==
    \E p \in Producers :
        /\ q[p] = i /\ op[p] = "mp" /\ pc[p] = "mp_link"
        /\ MainEnd(i) = nxt[p]

\* C16: following next from the tail node visits no node twice and ends at
\* the head node.  The deviations of an enqueue in flight are allowed: the
\* walk may end at the node an spEnqueue has linked and not yet stored into
\* head, or at a node whose next an mpEnqueue has still to store.
C16_AcyclicEndsAtHead ==
    /\ MainEnd(1) # Null
    /\ MainEnd(1) = head[1] \/ SpLinked(1) \/ MpPending(1)

\* h is a permutation of [0, n)
IsPerm(h, n) == Len(h) = n /\ {h[j] : j \in 1 .. n} = 0 .. n - 1
\* g is h with the element at position k moved to the front and the
\* elements before it shifted back by one
Rotated(h, g, k) ==
    /\ Len(g) = Len(h)
    /\ g[1] = h[k]
    /\ \A j \in 1 .. k - 1 : g[j + 1] = h[j]
    /\ \A j \in k + 1 .. Len(h) : g[j] = h[j]
\* the multilist_vector_queue dequeue of c returns true in this step
SaqSuccess(c) == pc[c] = "saq_ret" /\ ret[c] = "true" /\ pc'[c] = "idle"

\* C17: a hitlist is a permutation of [0, N); it changes only when its
\* dequeue succeeds (after being initialised to the identity), and then the
\* index of the subqueue that was hit moves to the front with the indices
\* before it shifted back in order; while only the producer pinned to
\* subqueue PinA has enqueued, a hitlist is the identity until its first
\* success and begins with PinA from then on.
C17_HitlistUpdate ==
    /\ [](\A c \in Consumers, f \in HitFns :
            hitlist[c][f] = <<>> \/ IsPerm(hitlist[c][f], NumQueuesB))
    /\ [][\A c \in Consumers, f \in HitFns :
            hitlist'[c][f] # hitlist[c][f]
                => \/ hitlist[c][f] = <<>> /\ hitlist'[c][f] = hitlist_sequence(2)
                   \/ SaqSuccess(c) /\ saq[c] = f]_vars
    /\ [][\A c \in Consumers :
            SaqSuccess(c)
                => /\ Rotated(hitlist[c][saq[c]], hitlist'[c][saq[c]], it[c])
                   /\ hitlist'[c][saq[c]][1] = q[c] - Base(2) - 1]_vars
    /\ [](count[2] = 0 =>
            \A c \in Consumers, f \in HitFns :
                \/ hitlist[c][f] \in {<<>>, hitlist_sequence(2)}
                \/ hitlist[c][f][1] = PinA)
    /\ [][count[2] = 0 =>
            \A c \in Consumers :
                SaqSuccess(c) => hitlist'[c][saq[c]][1] = PinA]_vars

\* only the pinned producer has enqueued; the consumer's second sc_dequeue
\* has succeeded and its hitlist is the identity with PinA moved to the front
C17_Witness ==
    /\ count[2] = 0 /\ Len(deqd) = 2
    /\ pc[3] = "idle" /\ op[3] = "sc" /\ ret[3] = "true"
    /\ hitlist[3]["sc"][1] = PinA
    /\ Rotated(hitlist_sequence(2), hitlist[3]["sc"], NumQueuesB)

\* the list queue dequeue and the subqueue of the j-th attempt of a
\* multilist_vector_queue mc_dequeue that walks hitlist h
PassOp(h, j) == IF j <= Len(h) THEN "light" ELSE "mc"
PassIdx(h, j) == h[((j - 1) % Len(h)) + 1]
\* the last multilist_vector_queue dequeue of c was an mc_dequeue (its first
\* attempt was an mc_dequeue_light) and has returned false
McFalse(c) ==
    /\ pc[c] = "idle" /\ saq[c] = "none" /\ ret[c] = "false"
    /\ log[c] # <<>> /\ log[c][1][1] = "light"

\* C18: mc_dequeue tries the subqueues in hitlist order with
\* mc_dequeue_light and then, again from the start, with mc_dequeue; every
\* attempt before the last one made has failed; it returns false only after
\* N failed attempts of each kind; a failed mc_dequeue attempt read a null
\* next on its subqueue; and no subqueue has had a linked front element
\* during the whole of a call that returned false.
C18_TwoPasses ==
    /\ [](\A c \in Consumers :
            (saq[c] = "mc" \/ McFalse(c)) =>
                LET h == hitlist[c]["mc"]
                IN /\ Len(log[c]) <= 2 * Len(h)
                   /\ \A j \in 1 .. Len(log[c]) :
                         log[c][j] = <<PassOp(h, j), PassIdx(h, j), "false">>)
    /\ [](\A c \in Consumers :
            McFalse(c) => Len(log[c]) = 2 * NumQueues)
    /\ [][\A c \in Consumers :
            (op[c] = "mc" /\ pc[c] # "saq_ret" /\ pc'[c] = "saq_ret"
                /\ ret'[c] = "false")
                => pc[c] = "dq_restore"]_vars
    /\ [][\A c \in Consumers :
            (op[c] = "mc" /\ pc[c] = "dq_next" /\ pc'[c] = "dq_restore")
                => ~Linked(q[c])]_vars
    /\ [](\A c \in Consumers : McFalse(c) => full[c] = {})

\* consumer 3 has come back false after the two passes while consumer 4,
\* whose light attempts all failed, got its element in the second pass
C18_Witness ==
    /\ McFalse(3) /\ Len(log[3]) = 2 * NumQueues
    /\ pc[4] = "idle" /\ ret[4] = "true" /\ op[4] = "mc"
    /\ Len(log[4]) > NumQueues

\* the values of the enqueues that have returned and that no dequeue has
\* removed
Undequeued ==
    UNION {{Val(p, k) : k \in 1 .. Returned(p)} : p \in Producers} \ DeqVals
\* an mpEnqueue on queue i has swapped _head and not yet stored the next of
\* its predecessor
Window(i) == \E o \in Producers : q[o] = i /\ op[o] = "mp" /\ pc[o] = "mp_link"

\* C19: a dequeue can find a null next while the value of a returned
\* mpEnqueue is still in the queue only if some mpEnqueue is between its
\* head swap and its next store; when no mpEnqueue is there, every such
\* value is in a node linked behind the tail node, so that a dequeue finds
\* an element.
C19_WindowOnlySource ==
    /\ (Undequeued # {} /\ ~Linked(1)) => Window(1)
    /\ ~Window(1) =>
          \A v \in Undequeued :
              \E n \in MainList(1) \ {Front(1)} : data[n] = v

\* C20: the hitlist a thread walks in sc_dequeue / mc_dequeue on an instance
\* is a permutation of [0, N) for the N subqueues of that instance, and the
\* indx an auto-routed enqueue uses on an instance is less than its N.
C20_PerInstanceStatics ==
    /\ \A c \in Threads :
          saq[c] \in HitFns => IsPerm(hitlist[c][saq[c]], Size(inst[c]))
    /\ \A p \in Threads :
          sub[p] # Unset => sub[p] < Size(inst[p])
====
